---- MODULE Spec2Model ----
(***************************************************************************)
(* Model of chainsaw's test orchestration: testsProcessor.Run (the tests   *)
(* scheduler of package processors) on top of Go's testing.T semantics     *)
(* (t.Run, t.Parallel, t.Cleanup, t.FailNow, t.SkipNow).                   *)
(*                                                                         *)
(* The parent test (the goroutine executing testsProcessor.Run) is         *)
(* described by pc; each scheduled test instance (one t.Run sub-test) is   *)
(* one record of inst.  A sub-test that calls t.Parallel() pauses until    *)
(* the parent's test function has returned (or has exited by FailNow);     *)
(* a sub-test that does not call it runs while the parent is blocked in    *)
(* t.Run.  Cleanups of a testing.T run last-registered-first once its      *)
(* function and all its sub-tests have finished.                           *)
(*                                                                         *)
(* The collector command builders, kubectl.Logs and kubectl.Describe, are  *)
(* pure functions of their arguments; call and result hold one call of one *)
(* of them.                                                                *)
(***************************************************************************)
EXTENDS Integers, Sequences, FiniteSets

\* Bounds of the model.
MaxTests == 2
MaxScenarios == 2
MaxInstances == 2
MaxSetupInstances == 1
MaxRuns == 2
MaxBindings == 1

VARIABLES
    config,         \* testsProcessor.config (+ whether summary / report are non-nil)
    tests,          \* testsProcessor.tests
    arg,            \* the bindings argument of Run
    cluster,        \* namespaces existing on the cluster behind clusterClient
    run,            \* number of the current invocation of Run
    pc,             \* position of the parent test inside Run
    bindings,       \* the variable `bindings` of Run (run-level binding context)
    object,         \* name of the namespace object (object.GetName())
    cleanups,       \* cleanups registered on the parent t, in registration order
    tFailed,        \* t.Failed() of the parent t
    log,            \* this run's calls of the cluster client and the report, its
                    \* cleanup registrations and its fatal set-up errors
    i,              \* loop variable of `for i := range p.tests`
    s,              \* loop variable of `for s := range scenarios`
    scenarios,      \* the variable `scenarios` of the current outer iteration
    shouldFailFast, \* the atomic.Bool shared by all instances
    summary,        \* the counters of summary.Summary
    inst,           \* the sub-tests started by t.Run, in scheduling order
    call,           \* a call of a collector command builder: its arguments
    result          \* what that call returned

vars == <<config, tests, arg, cluster, run, pc, bindings, object, cleanups, tFailed,
          log, i, s, scenarios, shouldFailFast, summary, inst, call, result>>

----------------------------------------------------------------------------
\* Data

\* *bool fields of the test spec
PtrBool == {"nil", "true", "false"}

NsNames == {"ns", "tpl"}

BindingTokens == {1, 2}

RECURSIVE SeqsUpTo(_, _)
SeqsUpTo(S, n) ==
    IF n = 0 THEN {<<>>}
    ELSE LET shorter == SeqsUpTo(S, n - 1)
         IN shorter \cup {Append(q, e) : q \in {r \in shorter : Len(r) = n - 1}, e \in S}

\* binding.Bindings: an immutable chain; Register returns a new chain.
NewBindings == <<>>

Register(b, name, value) == Append(b, [name |-> name, value |-> value])

\* apibindings.RegisterNamedBinding
RegisterNamedBinding(b, name, value) == Register(b, name, value)

\* apibindings.RegisterClusterBindings
RegisterClusterBindings(b, clusterClient) ==
    Register(b, "client", [client |-> clusterClient])

\* the value a chain resolves a name to: the innermost registration
RECURSIVE Lookup(_, _)
Lookup(b, name) ==
    IF b = <<>> THEN [unbound |-> TRUE]
    ELSE IF b[Len(b)].name = name THEN b[Len(b)].value
    ELSE Lookup(SubSeq(b, 1, Len(b) - 1), name)

\* cleanup.Skip(config, test, step): the innermost non-nil setting wins
CleanupSkip(cfg, test, step) ==
    IF step # "nil" THEN step = "true"
    ELSE IF test # "nil" THEN test = "true"
    ELSE cfg

\* TestInfo{Id, ScenarioId, Metadata}
TestInfo(id, scenarioId, metadata) ==
    [Id |-> id, ScenarioId |-> scenarioId, Metadata |-> metadata]

----------------------------------------------------------------------------
\* Discovered tests and scenario expansion

\* discovery.Test: test.Test may be nil; otherwise name is its ObjectMeta and
\* the other fields are its Spec (Scenarios, Bindings, Concurrent, Skip).
NilTest ==
    [isNil |-> TRUE, name |-> "", scenarios |-> <<>>, bindings |-> <<>>,
     concurrent |-> "nil", skip |-> "nil"]

MkTest(name, scens, binds, concurrent, skip) ==
    [isNil |-> FALSE, name |-> name, scenarios |-> scens, bindings |-> binds,
     concurrent |-> concurrent, skip |-> skip]

\* Mutant: the test's bindings come before the scenario's.
ExpandScenarioBaseFirst(test, k) ==
    [test EXCEPT !.scenarios = <<>>,
                 !.bindings = test.bindings \o test.scenarios[k].bindings]

\* One scenario of the loop at lines 141-150: a copy of the test without
\* scenarios whose bindings are the scenario's followed by the test's.
ExpandScenario(test, k) ==
    [test EXCEPT !.scenarios = <<>>,
                 !.bindings = test.scenarios[k].bindings \o test.bindings]

\* The value of `scenarios` after lines 136-152.
Expand(test) ==
    IF test.isNil THEN <<>>
    ELSE IF Len(test.scenarios) = 0 THEN <<test>>
    ELSE [k \in 1..Len(test.scenarios) |-> ExpandScenario(test, k)]

\* test.Test.Spec.Concurrent == nil || *test.Test.Spec.Concurrent
IsConcurrent(test) == test.concurrent = "nil" \/ test.concurrent = "true"

\* test.Test.Spec.Skip != nil && *test.Test.Spec.Skip
IsSkip(test) == test.skip # "nil" /\ test.skip = "true"

----------------------------------------------------------------------------
\* testing.T of the parent

\* failer.FailNow(ctx) in Run: t.FailNow() marks the parent failed and exits
\* its goroutine; the sub-tests paused in t.Parallel are released and the
\* parent's cleanups run once they are done.
FailNow ==
    /\ tFailed' = TRUE
    /\ pc' = "wait"

AllDone == \A j \in 1..Len(inst) : inst[j].pc = "done"

\* The loop control after a t.Run call has returned: next scenario, or next test.
AfterRun ==
    /\ s' = s + 1
    /\ IF s + 1 < Len(scenarios)
       THEN pc' = "inner" /\ i' = i
       ELSE pc' = "outer" /\ i' = i + 1

----------------------------------------------------------------------------
\* Run, lines 67-127: set-up

\* lines 67-76
Start ==
    /\ pc = "idle"
    /\ bindings' = IF arg.isNil THEN NewBindings ELSE arg.chain
    /\ IF config.report
       THEN /\ log' = Append(log, "SetStartTime")
            /\ cleanups' = Append(cleanups, "reportEnd")
       ELSE UNCHANGED <<log, cleanups>>
    /\ pc' = "resolve"
    /\ UNCHANGED <<call, result, config, tests, arg, cluster, run, object, tFailed, i, s,
                   scenarios, shouldFailFast, summary, inst>>

\* lines 78-85: p.clusters.Resolve(false)
Resolve ==
    /\ pc = "resolve"
    /\ IF config.clusters = "error"
       THEN /\ log' = Append(log, "Resolve:error")
            /\ FailNow
            /\ UNCHANGED bindings
       ELSE /\ bindings' = RegisterClusterBindings(bindings, config.clusters)
            /\ pc' = IF config.clusters # "nil" /\ config.namespace # ""
                     THEN "namespace" ELSE "outer"
            /\ UNCHANGED <<tFailed, log>>
    /\ UNCHANGED <<call, result, config, tests, arg, cluster, run, object, cleanups, i, s,
                   scenarios, shouldFailFast, summary, inst>>

\* lines 86-100: the namespace object and its binding; merged is the name of
\* the object mutate.Merge returns.
Namespace(err, merged) ==
    /\ pc = "namespace"
    /\ LET b1 == RegisterNamedBinding(bindings, "namespace", [str |-> config.namespace])
       IN IF config.template
          THEN IF err
               THEN /\ log' = Append(log, "Merge:error")
                    /\ FailNow
                    /\ bindings' = b1
                    /\ object' = config.namespace
               ELSE /\ object' = merged
                    /\ bindings' = RegisterNamedBinding(b1, "namespace", [str |-> merged])
                    /\ pc' = "get"
                    /\ UNCHANGED <<tFailed, log>>
          ELSE /\ object' = config.namespace
               /\ bindings' = b1
               /\ pc' = "get"
               /\ UNCHANGED <<tFailed, log>>
    /\ UNCHANGED <<call, result,
                   config, tests, arg, cluster, run, cleanups, i, s, scenarios,
                   shouldFailFast, summary, inst>>

\* Mutant: an error of Get other than not-found marks the run failed and
\* goes on as for not-found.
GetErrorGoesOn(err) ==
    /\ pc = "get"
    /\ IF err
       THEN /\ log' = Append(log, "Get:error")
            /\ tFailed' = TRUE
            /\ pc' = "register"
       ELSE IF object \in cluster
       THEN /\ log' = Append(log, "Get:found")
            /\ pc' = "outer"
            /\ UNCHANGED tFailed
       ELSE /\ log' = Append(log, "Get:notfound")
            /\ pc' = "register"
            /\ UNCHANGED tFailed
    /\ UNCHANGED <<call, result,
                   config, tests, arg, cluster, run, bindings, object, cleanups, i, s,
                   scenarios, shouldFailFast, summary, inst>>

\* Mutant: a namespace that exists is provisioned like a missing one.
GetFoundGoesOn(err) ==
    /\ pc = "get"
    /\ IF err
       THEN /\ log' = Append(log, "Get:error")
            /\ FailNow
       ELSE IF object \in cluster
       THEN /\ log' = Append(log, "Get:found")
            /\ pc' = "register"
            /\ UNCHANGED tFailed
       ELSE /\ log' = Append(log, "Get:notfound")
            /\ pc' = "register"
            /\ UNCHANGED tFailed
    /\ UNCHANGED <<call, result,
                   config, tests, arg, cluster, run, bindings, object, cleanups, i, s,
                   scenarios, shouldFailFast, summary, inst>>

\* lines 101-106: clusterClient.Get
Get(err) ==
    /\ pc = "get"
    /\ IF err
       THEN /\ log' = Append(log, "Get:error")
            /\ FailNow
       ELSE IF object \in cluster
       THEN /\ log' = Append(log, "Get:found")
            /\ pc' = "outer"
            /\ UNCHANGED tFailed
       ELSE /\ log' = Append(log, "Get:notfound")
            /\ pc' = "register"
            /\ UNCHANGED tFailed
    /\ UNCHANGED <<call, result,
                   config, tests, arg, cluster, run, bindings, object, cleanups, i, s,
                   scenarios, shouldFailFast, summary, inst>>

\* Mutant: the deletion is not registered ahead of the creation.
RegisterCleanupNotYet ==
    /\ pc = "register"
    /\ pc' = "create"
    /\ UNCHANGED <<call, result,
                   config, tests, arg, cluster, run, bindings, object, cleanups,
                   tFailed, log, i, s, scenarios, shouldFailFast, summary, inst>>

\* lines 107-121: t.Cleanup of the namespace deletion
RegisterCleanup ==
    /\ pc = "register"
    /\ IF ~CleanupSkip(config.skipDelete, "nil", "nil")
       THEN /\ cleanups' = Append(cleanups, "nsDelete")
            /\ log' = Append(log, "RegisterDelete")
       ELSE UNCHANGED <<cleanups, log>>
    /\ pc' = "create"
    /\ UNCHANGED <<call, result,
                   config, tests, arg, cluster, run, bindings, object, tFailed, i, s,
                   scenarios, shouldFailFast, summary, inst>>

\* lines 122-124: clusterClient.Create; a failed call may or may not have
\* left the namespace behind.
Create(err, left) ==
    /\ pc = "create"
    /\ IF err
       THEN /\ log' = Append(log, "Create:error")
            /\ FailNow
            /\ cluster' = IF left THEN cluster \cup {object} ELSE cluster
       ELSE /\ log' = Append(log, "Create:ok")
            /\ cluster' = cluster \cup {object}
            /\ pc' = "outer"
            /\ UNCHANGED tFailed
    /\ UNCHANGED <<call, result,
                   config, tests, arg, run, bindings, object, cleanups, i, s, scenarios,
                   shouldFailFast, summary, inst>>

----------------------------------------------------------------------------
\* Run, lines 129-199: scheduling

\* Mutant: one variable i for all iterations, read when the sub-test gets to
\* it: after the loop it holds the last index.
LoopIShared(r) == IF i < Len(tests) THEN i ELSE Len(tests) - 1

\* The sub-test function's own view of the loop variables i and s: each
\* iteration of a range loop has its own copy (Go 1.22 and later), which the
\* closure captures.
LoopI(r) == r.ci

LoopS(r) == r.cs

\* lines 157-174: the cleanups a sub-test registers first, in this order.
InitialCleanups ==
    <<"failfast">> \o (IF config.summary THEN <<"summary">> ELSE <<>>)

\* The sub-test as t.Run creates it for scenarios[s], cleanups registered.
NewInstance ==
    [test |-> scenarios[s + 1], ci |-> i, cs |-> s, pc |-> "paused",
     failed |-> FALSE, skipped |-> FALSE, cleanups |-> InitialCleanups,
     invoked |-> 0, given |-> <<>>]

\* t.SkipNow(): the sub-test is marked skipped and its function exits.
SkipNow(r) == [r EXCEPT !.skipped = TRUE, !.pc = "cleanup"]

\* lines 186-196: CreateTestProcessor and the call of processor.Run with the
\* run-level bindings extended by the `test` binding.
Invoke(r) ==
    [r EXCEPT !.pc = "proc",
              !.invoked = @ + 1,
              !.given = RegisterNamedBinding(
                            bindings, "test",
                            TestInfo(LoopI(r) + 1, LoopS(r) + 1, r.test.name))]

\* Mutant: the fail-fast check does not ask whether fail-fast is configured.
FailFastCheckUnconfigured(r) ==
    IF shouldFailFast THEN SkipNow(r) ELSE Invoke(r)

\* Mutant: the fail-fast check never skips.
FailFastCheckNeverSkips(r) == Invoke(r)

\* lines 181-185: the fail-fast check
FailFastCheck(r) ==
    IF config.failFast /\ shouldFailFast THEN SkipNow(r) ELSE Invoke(r)

\* Mutant: the Skip flag of the test is not looked at.
BodyIgnoresSkip(r) == FailFastCheck(r)

\* lines 178-196: the sub-test function after t.Parallel()
Body(r) ==
    IF IsSkip(r.test) THEN SkipNow(r) ELSE FailFastCheck(r)

\* lines 129-152: one iteration of the outer loop up to the inner loop
NextTest(err) ==
    /\ pc = "outer"
    /\ i < Len(tests)
    /\ IF err
       THEN FailNow /\ UNCHANGED <<i, s, scenarios>>
       ELSE /\ scenarios' = Expand(tests[i + 1])
            /\ s' = 0
            /\ IF Expand(tests[i + 1]) = <<>>
               THEN pc' = "outer" /\ i' = i + 1
               ELSE pc' = "inner" /\ i' = i
            /\ UNCHANGED tFailed
    /\ UNCHANGED <<call, result,
                   config, tests, arg, cluster, run, bindings, object, cleanups, log,
                   shouldFailFast, summary, inst>>

\* lines 153-177, concurrent instance: t.Run returns when the sub-test calls
\* t.Parallel(), which pauses it until the parent's function is over.
RunParallel ==
    /\ pc = "inner"
    /\ IsConcurrent(scenarios[s + 1])
    /\ inst' = Append(inst, NewInstance)
    /\ AfterRun
    /\ UNCHANGED <<call, result,
                   config, tests, arg, cluster, run, bindings, object, cleanups, tFailed,
                   log, scenarios, shouldFailFast, summary>>

\* Mutant: the parent does not wait for a non-concurrent sub-test.
RunSequentialNoWait ==
    /\ pc = "inner"
    /\ ~IsConcurrent(scenarios[s + 1])
    /\ inst' = Append(inst, Body(NewInstance))
    /\ AfterRun
    /\ UNCHANGED <<call, result, config, tests, arg, cluster, run, bindings, object,
                   cleanups, tFailed, log, scenarios, shouldFailFast, summary>>

\* lines 153-196, non-concurrent instance: the sub-test goes on at once and
\* the parent stays blocked in t.Run until it is done.
RunSequential ==
    /\ pc = "inner"
    /\ ~IsConcurrent(scenarios[s + 1])
    /\ inst' = Append(inst, Body(NewInstance))
    /\ pc' = "blocked"
    /\ UNCHANGED <<call, result,
                   config, tests, arg, cluster, run, bindings, object, cleanups, tFailed,
                   log, i, s, scenarios, shouldFailFast, summary>>

\* end of Run: the parent's function returns
Return ==
    /\ pc = "outer"
    /\ i = Len(tests)
    /\ pc' = "wait"
    /\ UNCHANGED <<call, result,
                   config, tests, arg, cluster, run, bindings, object, cleanups, tFailed,
                   log, i, s, scenarios, shouldFailFast, summary, inst>>

\* Mutant: the extended bindings are assigned to the variable of Run.
ResumeLeaks(j) ==
    /\ pc = "wait"
    /\ inst[j].pc = "paused"
    /\ inst' = [inst EXCEPT ![j] = Body(@)]
    /\ bindings' = IF Body(inst[j]).pc = "proc" THEN Body(inst[j]).given ELSE bindings
    /\ UNCHANGED <<call, result, config, tests, arg, cluster, run, pc, object, cleanups,
                   tFailed, log, i, s, scenarios, shouldFailFast, summary>>

\* A sub-test paused in t.Parallel() resumes (lines 178-196) once the
\* parent's function is over.
Resume(j) ==
    /\ pc = "wait"
    /\ inst[j].pc = "paused"
    /\ inst' = [inst EXCEPT ![j] = Body(@)]
    /\ UNCHANGED <<call, result,
                   config, tests, arg, cluster, run, pc, bindings, object, cleanups,
                   tFailed, log, i, s, scenarios, shouldFailFast, summary>>

\* What the per-test processor can do to its testing.T before it is over.
Outcomes == {"pass", "fail", "failnow", "skipnow"}

\* The cleanup the processor may have registered on the sub-test.
ProcessorCleanups == {"none", "procFail"}

\* processor.Run is over: by returning, t.FailNow() or t.SkipNow().
ProcessorReturn(j, outcome, cl) ==
    /\ inst[j].pc = "proc"
    /\ inst' = [inst EXCEPT
                   ![j].failed = outcome \in {"fail", "failnow"},
                   ![j].skipped = outcome = "skipnow",
                   ![j].cleanups = IF cl = "none" THEN @ ELSE Append(@, cl),
                   ![j].pc = "cleanup"]
    /\ tFailed' = (tFailed \/ outcome \in {"fail", "failnow"})
    /\ UNCHANGED <<call, result,
                   config, tests, arg, cluster, run, pc, bindings, object, cleanups,
                   log, i, s, scenarios, shouldFailFast, summary>>

\* Mutant: the else of the Skipped test is lost, a skipped instance is also
\* counted by the Failed test.
SummaryCleanupNoElse(r) ==
    LET sk == IF r.skipped THEN [summary EXCEPT !.skipped = @ + 1] ELSE summary
    IN IF r.failed
       THEN [sk EXCEPT !.failed = @ + 1]
       ELSE [sk EXCEPT !.passed = @ + 1]

\* lines 163-173: the summary cleanup
SummaryCleanup(r) ==
    IF r.skipped
    THEN [summary EXCEPT !.skipped = @ + 1]
    ELSE IF r.failed
    THEN [summary EXCEPT !.failed = @ + 1]
    ELSE [summary EXCEPT !.passed = @ + 1]

\* Mutant: the cleanup stores whether the instance failed.
FailFastCleanupStores(r) == r.failed

\* lines 157-161: the fail-fast cleanup
FailFastCleanup(r) ==
    IF r.failed THEN TRUE ELSE shouldFailFast

\* Mutant: storing the flag also cancels the instances whose processor runs.
InstCleanupPreempts(j) ==
    /\ inst[j].pc = "cleanup"
    /\ LET r == inst[j]
           n == Len(r.cleanups)
           c == r.cleanups[n]
           trips == c = "failfast" /\ r.failed /\ config.failFast
       IN /\ inst' = [k \in 1..Len(inst) |->
                         IF k = j
                         THEN [r EXCEPT !.cleanups = SubSeq(r.cleanups, 1, n - 1),
                                        !.failed = (r.failed \/ c = "procFail"),
                                        !.pc = IF n = 1 THEN "done" ELSE "cleanup"]
                         ELSE IF trips /\ inst[k].pc = "proc" THEN SkipNow(inst[k])
                         ELSE inst[k]]
          /\ summary' = IF c = "summary" THEN SummaryCleanup(r) ELSE summary
          /\ shouldFailFast' = IF c = "failfast" THEN FailFastCleanup(r)
                               ELSE shouldFailFast
          /\ tFailed' = (tFailed \/ c = "procFail")
          /\ IF n = 1 /\ pc = "blocked"
             THEN AfterRun
             ELSE UNCHANGED <<pc, i, s>>
    /\ UNCHANGED <<call, result,
                   config, tests, arg, cluster, run, bindings, object, cleanups, log,
                   scenarios>>

\* Mutant: the sub-test runs its cleanups first-registered-first.
InstCleanupFifo(j) ==
    /\ inst[j].pc = "cleanup"
    /\ LET r == inst[j]
           n == Len(r.cleanups)
           c == r.cleanups[1]
       IN /\ inst' = [inst EXCEPT
                         ![j].cleanups = Tail(r.cleanups),
                         ![j].failed = (r.failed \/ c = "procFail"),
                         ![j].pc = IF n = 1 THEN "done" ELSE "cleanup"]
          /\ summary' = IF c = "summary" THEN SummaryCleanup(r) ELSE summary
          /\ shouldFailFast' = IF c = "failfast" THEN FailFastCleanup(r)
                               ELSE shouldFailFast
          /\ tFailed' = (tFailed \/ c = "procFail")
          /\ IF n = 1 /\ pc = "blocked"
             THEN AfterRun
             ELSE UNCHANGED <<pc, i, s>>
    /\ UNCHANGED <<call, result, config, tests, arg, cluster, run, bindings, object,
                   cleanups, log, scenarios>>

\* The sub-test runs its last registered cleanup; after the last one it is
\* done, and a parent blocked in t.Run for it goes on.
InstCleanup(j) ==
    /\ inst[j].pc = "cleanup"
    /\ LET r == inst[j]
           n == Len(r.cleanups)
           c == r.cleanups[n]
       IN /\ inst' = [inst EXCEPT
                         ![j].cleanups = SubSeq(r.cleanups, 1, n - 1),
                         ![j].failed = (r.failed \/ c = "procFail"),
                         ![j].pc = IF n = 1 THEN "done" ELSE "cleanup"]
          /\ summary' = IF c = "summary" THEN SummaryCleanup(r) ELSE summary
          /\ shouldFailFast' = IF c = "failfast" THEN FailFastCleanup(r)
                               ELSE shouldFailFast
          /\ tFailed' = (tFailed \/ c = "procFail")
          /\ IF n = 1 /\ pc = "blocked"
             THEN AfterRun
             ELSE UNCHANGED <<pc, i, s>>
    /\ UNCHANGED <<call, result,
                   config, tests, arg, cluster, run, bindings, object, cleanups, log,
                   scenarios>>

----------------------------------------------------------------------------
\* End of the parent test

\* Mutant: the parent's cleanups do not wait for the sub-tests.
ParentCleanupEarly(err) ==
    /\ pc = "wait"
    /\ cleanups # <<>>
    /\ LET n == Len(cleanups)
           c == cleanups[n]
       IN /\ cleanups' = SubSeq(cleanups, 1, n - 1)
          /\ IF c = "nsDelete"
             THEN /\ log' = Append(log, "Delete")
                  /\ cluster' = IF err THEN cluster ELSE cluster \ {object}
                  /\ tFailed' = (tFailed \/ err)
             ELSE /\ log' = Append(log, "SetEndTime")
                  /\ UNCHANGED <<cluster, tFailed>>
    /\ UNCHANGED <<call, result, config, tests, arg, run, pc, bindings, object, i, s,
                   scenarios, shouldFailFast, summary, inst>>

\* The parent runs its last registered cleanup once every sub-test is done:
\* the namespace deletion (operation.execute of opdelete) or SetEndTime.
ParentCleanup(err) ==
    /\ pc = "wait"
    /\ AllDone
    /\ cleanups # <<>>
    /\ LET n == Len(cleanups)
           c == cleanups[n]
       IN /\ cleanups' = SubSeq(cleanups, 1, n - 1)
          /\ IF c = "nsDelete"
             THEN /\ log' = Append(log, "Delete")
                  /\ cluster' = IF err THEN cluster ELSE cluster \ {object}
                  /\ tFailed' = (tFailed \/ err)
             ELSE /\ log' = Append(log, "SetEndTime")
                  /\ UNCHANGED <<cluster, tFailed>>
    /\ UNCHANGED <<call, result,
                   config, tests, arg, run, pc, bindings, object, i, s, scenarios,
                   shouldFailFast, summary, inst>>

Finish ==
    /\ pc = "wait"
    /\ AllDone
    /\ cleanups = <<>>
    /\ pc' = "done"
    /\ UNCHANGED <<call, result,
                   config, tests, arg, cluster, run, bindings, object, cleanups, tFailed,
                   log, i, s, scenarios, shouldFailFast, summary, inst>>

\* NewTestsProcessor: the state of a processor before Run is called.
Constructed ==
    /\ pc = "idle"
    /\ bindings = NewBindings
    /\ object = ""
    /\ cleanups = <<>>
    /\ tFailed = FALSE
    /\ log = <<>>
    /\ i = 0
    /\ s = 0
    /\ scenarios = <<>>
    /\ shouldFailFast = FALSE
    /\ summary = [passed |-> 0, failed |-> 0, skipped |-> 0]
    /\ inst = <<>>

\* The same configuration and tests are run again, by a new processor,
\* against the cluster as the previous run left it.
NewRun ==
    /\ pc = "done"
    /\ run < MaxRuns
    /\ run' = run + 1
    /\ pc' = "idle"
    /\ bindings' = NewBindings
    /\ object' = ""
    /\ cleanups' = <<>>
    /\ tFailed' = FALSE
    /\ log' = <<>>
    /\ i' = 0
    /\ s' = 0
    /\ scenarios' = <<>>
    /\ shouldFailFast' = FALSE
    /\ summary' = [passed |-> 0, failed |-> 0, skipped |-> 0]
    /\ inst' = <<>>
    /\ UNCHANGED <<call, result, config, tests, arg, cluster>>

----------------------------------------------------------------------------
\* Collector command builders: kubectl.Logs and kubectl.Describe

\* A templated string field of a collector: a literal, or an expression that
\* names a binding.
Lit(text) == [kind |-> "lit", text |-> text]

Ref(name) == [kind |-> "ref", text |-> name]

\* The binding resolver: a literal is itself; an expression is the string
\* bound to the name, an error when the name is unbound or bound to a value
\* that is no string.
ResolveString(in, b) ==
    IF in.kind = "lit" THEN [value |-> in.text, err |-> ""]
    ELSE LET v == Lookup(b, in.text)
         IN IF "str" \in DOMAIN v THEN [value |-> v.str, err |-> ""]
            ELSE IF "unbound" \in DOMAIN v
            THEN [value |-> "", err |-> "variable not defined"]
            ELSE [value |-> "", err |-> "expression didn't evaluate to a string"]

\* apibindings.String, as Logs calls it
String(in, b) == ResolveString(in, b)

\* apitemplate.ConvertString, as Describe calls it
ConvertString(in, b) == ResolveString(in, b)

\* mapResource: the kind of resource the reference names on the client's
\* cluster and whether it is cluster-scoped, or an error.
mapResource(client, b, reference) == client[reference]

Digits == <<"0", "1", "2", "3", "4", "5", "6", "7", "8", "9">>

RECURSIVE SprintNat(_)
SprintNat(n) ==
    IF n < 10 THEN Digits[n + 1]
    ELSE SprintNat(n \div 10) \o Digits[(n % 10) + 1]

\* fmt.Sprint of an int
Sprint(n) == IF n < 0 THEN "-" \o SprintNat(0 - n) ELSE SprintNat(n)

\* fmt.Sprintf("--show-events=%t", b)
SprintfShowEvents(b) == "--show-events=" \o (IF b THEN "true" ELSE "false")

\* An error return of Logs: "", nil, err
LogsError(msg) == [fn |-> "Logs", entrypoint |-> "", args |-> <<>>, err |-> msg]

\* Mutant: --all-containers is always passed, before the container.
LogsArgsAllContainers(name, namespace, selector, container, tail) ==
    LET a1 == <<"logs", "--prefix">>
        a2 == IF name # "" THEN Append(a1, name)
              ELSE IF selector # "" THEN a1 \o <<"-l", selector>>
              ELSE a1
        a3 == a2 \o <<"-n", IF namespace = "" THEN "$NAMESPACE" ELSE namespace>>
        a4 == IF container = "" THEN Append(a3, "--all-containers")
              ELSE a3 \o <<"--all-containers", "-c", container>>
    IN IF ~tail.isNil THEN a4 \o <<"--tail", Sprint(tail.value)>> ELSE a4

\* logs.go, lines 38-56: the arguments for resolved fields
LogsArgs(name, namespace, selector, container, tail) ==
    LET a1 == <<"logs", "--prefix">>
        a2 == IF name # "" THEN Append(a1, name)
              ELSE IF selector # "" THEN a1 \o <<"-l", selector>>
              ELSE a1
        a3 == a2 \o <<"-n", IF namespace = "" THEN "$NAMESPACE" ELSE namespace>>
        a4 == IF container = "" THEN Append(a3, "--all-containers")
              ELSE a3 \o <<"-c", container>>
    IN IF ~tail.isNil THEN a4 \o <<"--tail", Sprint(tail.value)>> ELSE a4

\* Mutant: only the exclusion of name and selector is validated.
LogsValidateExclusionOnly(name, selector) ==
    IF name # "" /\ selector # ""
    THEN "name cannot be provided when a selector is specified"
    ELSE ""

\* logs.go, lines 32-37: the validation of name and selector
LogsValidate(name, selector) ==
    IF name = "" /\ selector = "" THEN "a name or selector must be specified"
    ELSE IF name # "" /\ selector # ""
    THEN "name cannot be provided when a selector is specified"
    ELSE ""

\* kubectl.Logs
Logs(b, collector) ==
    IF collector.isNil THEN LogsError("collector is null")
    ELSE LET name == String(collector.name, b)
             namespace == String(collector.namespace, b)
             selector == String(collector.selector, b)
             container == String(collector.container, b)
         IN IF name.err # "" THEN LogsError(name.err)
            ELSE IF namespace.err # "" THEN LogsError(namespace.err)
            ELSE IF selector.err # "" THEN LogsError(selector.err)
            ELSE IF container.err # "" THEN LogsError(container.err)
            ELSE IF LogsValidate(name.value, selector.value) # ""
            THEN LogsError(LogsValidate(name.value, selector.value))
            ELSE [fn |-> "Logs", entrypoint |-> "kubectl",
                  args |-> LogsArgs(name.value, namespace.value, selector.value,
                                    container.value, collector.tail),
                  err |-> ""]

\* The nil *v1alpha1.Command
NilCommand ==
    [isNil |-> TRUE, cluster |-> "", timeout |-> "nil", entrypoint |-> "",
     args |-> <<>>]

\* An error return of Describe: nil, err
DescribeError(msg) == [fn |-> "Describe", cmd |-> NilCommand, err |-> msg]

\* Mutant: the namespace flags do not depend on the scope of the resource.
DescribeArgsAnyScope(resource, clustered, name, namespace, selector, showEvents) ==
    LET a1 == <<"describe", resource>>
        a2 == IF name # "" THEN Append(a1, name)
              ELSE IF selector # "" THEN a1 \o <<"-l", selector>>
              ELSE a1
        a3 == IF namespace = "*" THEN Append(a2, "--all-namespaces")
              ELSE a2 \o <<"-n", IF namespace = "" THEN "$NAMESPACE" ELSE namespace>>
    IN IF showEvents # "nil" THEN Append(a3, SprintfShowEvents(showEvents = "true"))
       ELSE a3

\* describe.go, lines 44-63: the arguments for resolved fields
DescribeArgs(resource, clustered, name, namespace, selector, showEvents) ==
    LET a1 == <<"describe", resource>>
        a2 == IF name # "" THEN Append(a1, name)
              ELSE IF selector # "" THEN a1 \o <<"-l", selector>>
              ELSE a1
        a3 == IF ~clustered
              THEN IF namespace = "*" THEN Append(a2, "--all-namespaces")
                   ELSE a2 \o <<"-n", IF namespace = "" THEN "$NAMESPACE" ELSE namespace>>
              ELSE a2
    IN IF showEvents # "nil" THEN Append(a3, SprintfShowEvents(showEvents = "true"))
       ELSE a3

\* Mutant: the resource is mapped before name and selector are validated.
DescribeMapsFirst(client, b, collector) ==
    IF collector.isNil THEN DescribeError("collector is null")
    ELSE LET name == ConvertString(collector.name, b)
             namespace == ConvertString(collector.namespace, b)
             selector == ConvertString(collector.selector, b)
             cluster_ == ConvertString(collector.cluster, b)
             mapped == mapResource(client, b, collector.resource)
         IN IF name.err # "" THEN DescribeError(name.err)
            ELSE IF namespace.err # "" THEN DescribeError(namespace.err)
            ELSE IF selector.err # "" THEN DescribeError(selector.err)
            ELSE IF cluster_.err # "" THEN DescribeError(cluster_.err)
            ELSE IF mapped.err # "" THEN DescribeError(mapped.err)
            ELSE IF name.value # "" /\ selector.value # ""
            THEN DescribeError("name cannot be provided when a selector is specified")
            ELSE [fn |-> "Describe",
                  cmd |-> [isNil |-> FALSE, cluster |-> cluster_.value,
                           timeout |-> collector.timeout, entrypoint |-> "kubectl",
                           args |-> DescribeArgs(mapped.resource, mapped.clustered,
                                                 name.value, namespace.value,
                                                 selector.value, collector.showEvents)],
                  err |-> ""]

\* Mutant: Describe validates name and selector as Logs does.
DescribeValidatesLikeLogs(client, b, collector) ==
    IF collector.isNil THEN DescribeError("collector is null")
    ELSE LET name == ConvertString(collector.name, b)
             namespace == ConvertString(collector.namespace, b)
             selector == ConvertString(collector.selector, b)
             cluster_ == ConvertString(collector.cluster, b)
         IN IF name.err # "" THEN DescribeError(name.err)
            ELSE IF namespace.err # "" THEN DescribeError(namespace.err)
            ELSE IF selector.err # "" THEN DescribeError(selector.err)
            ELSE IF cluster_.err # "" THEN DescribeError(cluster_.err)
            ELSE IF LogsValidate(name.value, selector.value) # ""
            THEN DescribeError(LogsValidate(name.value, selector.value))
            ELSE DescribeMapsFirst(client, b, collector)

\* kubectl.Describe
Describe(client, b, collector) ==
    IF collector.isNil THEN DescribeError("collector is null")
    ELSE LET name == ConvertString(collector.name, b)
             namespace == ConvertString(collector.namespace, b)
             selector == ConvertString(collector.selector, b)
             cluster_ == ConvertString(collector.cluster, b)
             mapped == mapResource(client, b, collector.resource)
         IN IF name.err # "" THEN DescribeError(name.err)
            ELSE IF namespace.err # "" THEN DescribeError(namespace.err)
            ELSE IF selector.err # "" THEN DescribeError(selector.err)
            ELSE IF cluster_.err # "" THEN DescribeError(cluster_.err)
            ELSE IF name.value # "" /\ selector.value # ""
            THEN DescribeError("name cannot be provided when a selector is specified")
            ELSE IF mapped.err # "" THEN DescribeError(mapped.err)
            ELSE [fn |-> "Describe",
                  cmd |-> [isNil |-> FALSE, cluster |-> cluster_.value,
                           timeout |-> collector.timeout, entrypoint |-> "kubectl",
                           args |-> DescribeArgs(mapped.resource, mapped.clustered,
                                                 name.value, namespace.value,
                                                 selector.value, collector.showEvents)],
                  err |-> ""]

\* No call of a builder, and no result.
NoCall == [fn |-> "none"]

NoResult == [fn |-> "none"]

\* A caller applies Logs to its arguments.
CallLogs ==
    /\ call.fn = "Logs"
    /\ result = NoResult
    /\ result' = Logs(call.bindings, call.collector)
    /\ UNCHANGED <<call, config, tests, arg, cluster, run, pc, bindings, object,
                   cleanups, tFailed, log, i, s, scenarios, shouldFailFast, summary,
                   inst>>

\* A caller applies Describe to its arguments.
CallDescribe ==
    /\ call.fn = "Describe"
    /\ result = NoResult
    /\ result' = Describe(call.client, call.bindings, call.collector)
    /\ UNCHANGED <<call, config, tests, arg, cluster, run, pc, bindings, object,
                   cleanups, tFailed, log, i, s, scenarios, shouldFailFast, summary,
                   inst>>

----------------------------------------------------------------------------
\* Initial states and specifications

\* model.Configuration as Run reads it, whether p.summary / p.report are set,
\* and what p.clusters resolves the default cluster to.
Configs ==
    [failFast : BOOLEAN, summary : BOOLEAN, report : BOOLEAN,
     clusters : {"error", "nil", "client"},
     namespace : {"", "ns"}, template : BOOLEAN, skipDelete : BOOLEAN]

\* The scenarios of a test: the k-th one has the bindings bs[k].
ScenarioList(bs) == [k \in 1..Len(bs) |-> [bindings |-> bs[k]]]

\* Scenario bindings that name their scenario.
Numbered(n) == [k \in 1..n |-> <<k>>]

\* Tests at place k of p.tests: nil, or with up to MaxScenarios scenarios and
\* one of the given pairs of Concurrent and Skip. A test with one scenario is
\* scheduled like a test with none; it is among the tests of InitExpansion.
TestsAt(k, flags) ==
    {NilTest} \cup
    {MkTest(k, ScenarioList(Numbered(n)), <<0>>, f[1], f[2]) :
        n \in (0..MaxScenarios) \ {1}, f \in flags}

RECURSIVE TestListsOfLen(_, _)
TestListsOfLen(n, flags) ==
    IF n = 0 THEN {<<>>}
    ELSE {Append(l, t) : l \in TestListsOfLen(n - 1, flags), t \in TestsAt(n, flags)}

RECURSIVE CountInstances(_)
CountInstances(l) ==
    IF l = <<>> THEN 0
    ELSE Len(Expand(l[Len(l)])) + CountInstances(SubSeq(l, 1, Len(l) - 1))

TestLists(maxTests, maxInstances, flags) ==
    {l \in UNION {TestListsOfLen(n, flags) : n \in 0..maxTests} :
        CountInstances(l) <= maxInstances}

\* The binding context the caller passes to Run.
Args ==
    {[isNil |-> TRUE, chain |-> <<>>],
     [isNil |-> FALSE, chain |-> Register(NewBindings, "caller", [str |-> "v"])]}

\* Scheduling: the lists of tests, concurrent or not, skipped or not, run once
\* on a cluster without configured namespace; without a summary, one test.
InitScheduling ==
    /\ config \in {c \in Configs :
           /\ c.clusters = "client" /\ c.namespace = ""
           /\ ~c.report /\ ~c.template /\ ~c.skipDelete}
    /\ tests \in TestLists(MaxTests, MaxInstances,
                           {"nil", "false"} \X {"nil", "true"})
    /\ config.summary \/ Len(tests) <= 1
    /\ arg \in {a \in Args : a.isNil}
    /\ cluster = {}
    /\ run = MaxRuns

\* Set-up: the configurations and clusters, run MaxRuns times with few tests,
\* none with scenarios.
InitSetup ==
    /\ config \in {c \in Configs :
           /\ c.failFast /\ c.summary
           /\ c.namespace = "" => ~c.template /\ ~c.skipDelete
           /\ c.clusters = "error" => c.namespace = ""}
    /\ tests \in {l \in TestLists(MaxSetupInstances, MaxSetupInstances,
                                  {<<"nil", "nil">>, <<"true", "false">>, <<"false", "nil">>}) :
           \A k \in 1..Len(l) : ~l[k].isNil /\ l[k].scenarios = <<>>}
    /\ arg \in {a \in Args : ~a.isNil}
    /\ cluster \in IF config.clusters # "client" \/ config.namespace = "" THEN {{}}
                   ELSE IF config.template THEN SUBSET NsNames
                   ELSE SUBSET {config.namespace}
    /\ run = 1

\* Expansion: one test with every choice of scenario and base bindings, none
\* of whose instances is run.
InitExpansion ==
    /\ config \in {c \in Configs :
           /\ c.clusters = "nil" /\ c.namespace = ""
           /\ ~c.failFast /\ ~c.summary /\ ~c.report /\ ~c.template /\ ~c.skipDelete}
    /\ tests \in {<<MkTest(1, ScenarioList(bs), base, "false", "true")>> :
           bs \in SeqsUpTo(SeqsUpTo(BindingTokens, MaxBindings), MaxScenarios),
           base \in SeqsUpTo(BindingTokens, MaxBindings)}
    /\ arg \in {a \in Args : a.isNil}
    /\ cluster = {}
    /\ run = MaxRuns

Init ==
    /\ InitScheduling \/ InitSetup \/ InitExpansion
    /\ Constructed
    /\ call = NoCall
    /\ result = NoResult

Next ==
    \/ Start
    \/ Resolve
    \/ \E err \in BOOLEAN, merged \in NsNames : Namespace(err, merged)
    \/ \E err \in BOOLEAN : Get(err)
    \/ RegisterCleanup
    \/ \E err \in BOOLEAN, left \in BOOLEAN : Create(err, left)
    \/ \E err \in BOOLEAN : NextTest(err)
    \/ RunParallel
    \/ RunSequential
    \/ Return
    \/ \E j \in 1..Len(inst) : Resume(j)
    \/ \E j \in 1..Len(inst), o \in Outcomes, cl \in ProcessorCleanups :
           ProcessorReturn(j, o, cl)
    \/ \E j \in 1..Len(inst) : InstCleanup(j)
    \/ \E err \in BOOLEAN : ParentCleanup(err)
    \/ Finish
    \/ NewRun

Spec == Init /\ [][Next]_vars

\* The fields of the collectors: empty, literal, or an expression naming the
\* binding x.
NameFields == {Lit(""), Lit("pod-1"), Ref("x")}

SelectorFields == {Lit(""), Lit("app=a"), Ref("x")}

NamespaceFields == {Lit(""), Lit("ns1"), Lit("*"), Ref("x")}

ContainerFields == {Lit(""), Lit("c1"), Ref("x")}

ClusterFields == {Lit(""), Lit("c2"), Ref("x")}

\* *int
Tails ==
    {[isNil |-> TRUE, value |-> 0]} \cup
    {[isNil |-> FALSE, value |-> n] : n \in {-1, 0, 7, 25}}

\* *v1alpha1.PodLogs
LogCollectors ==
    {[isNil |-> TRUE]} \cup
    [isNil : {FALSE}, name : NameFields, namespace : NamespaceFields,
     selector : SelectorFields, container : ContainerFields, tail : Tails]

ResourceReferences == {"Pod", "Node", "Widget"}

\* *v1alpha1.Describe
DescribeCollectors ==
    {[isNil |-> TRUE]} \cup
    [isNil : {FALSE}, name : NameFields, namespace : NamespaceFields,
     selector : SelectorFields, cluster : ClusterFields, timeout : {"nil", "30s"},
     showEvents : PtrBool, resource : ResourceReferences]

\* A client on whose cluster pods are namespaced, nodes are cluster-scoped
\* and widgets are unknown.
Clients ==
    {[reference \in ResourceReferences |->
         IF reference = "Pod"
         THEN [resource |-> "pods", clustered |-> FALSE, err |-> ""]
         ELSE IF reference = "Node"
         THEN [resource |-> "nodes", clustered |-> TRUE, err |-> ""]
         ELSE [resource |-> "", clustered |-> FALSE, err |-> "no matches for kind"]]}

\* The binding contexts of the calls: x unbound, bound to the empty string,
\* to a string, or to a string shadowed by a value that is no string.
CallBindings ==
    {NewBindings,
     Register(NewBindings, "x", [str |-> ""]),
     Register(NewBindings, "x", [str |-> "v"]),
     Register(Register(NewBindings, "x", [str |-> "v"]), "x", [client |-> "client"])}

\* Collectors: one call of Logs or Describe, no run of the tests.
InitCollectors ==
    /\ config = [failFast |-> FALSE, summary |-> FALSE, report |-> FALSE,
                 clusters |-> "nil", namespace |-> "", template |-> FALSE,
                 skipDelete |-> FALSE]
    /\ tests = <<>>
    /\ arg \in {a \in Args : a.isNil}
    /\ cluster = {}
    /\ run = MaxRuns
    /\ Constructed
    /\ call \in [fn : {"Logs"}, bindings : CallBindings, collector : LogCollectors]
                \cup [fn : {"Describe"}, client : Clients, bindings : CallBindings,
                      collector : DescribeCollectors]
    /\ result = NoResult

NextCollectors ==
    \/ CallLogs
    \/ CallDescribe

SpecCollectors == InitCollectors /\ [][NextCollectors]_vars

----------------------------------------------------------------------------
\* Properties of the scheduler

Instances == 1..Len(inst)

\* In this step instance j gets past its Skip and fail-fast checks: as a
\* paused sub-test that resumes, or as a new sub-test that does not pause.
Checks(j) ==
    /\ j \in 1..Len(inst')
    /\ inst'[j].pc # "paused"
    /\ \/ j \in Instances /\ inst[j].pc = "paused"
       \/ j = Len(inst) + 1

\* Another instance is done and has failed.
FailedBefore(j) ==
    \E k \in Instances : k # j /\ inst[k].pc = "done" /\ inst[k].failed

\* In this step instance j runs its summary cleanup.
Counts(j) ==
    /\ j \in Instances
    /\ j \in 1..Len(inst')
    /\ inst[j].pc = "cleanup"
    /\ inst[j].cleanups[Len(inst[j].cleanups)] = "summary"
    /\ inst'[j].cleanups # inst[j].cleanups

\* C1: with fail-fast enabled, an instance that gets to its checks when
\* another instance is done and has failed is skipped without its processor
\* being invoked; it is never invoked later and its summary cleanup counts it
\* as skipped.
C1_FailFastSkips ==
    [][\A j \in 1..Len(inst') :
          /\ (config.failFast /\ Checks(j) /\ FailedBefore(j))
                => /\ inst'[j].skipped
                   /\ inst'[j].invoked = 0
                   /\ inst'[j].pc = "cleanup"
          /\ (j \in Instances /\ inst[j].skipped /\ inst[j].invoked = 0)
                => /\ inst'[j].skipped
                   /\ inst'[j].invoked = 0
                   /\ Counts(j) => summary'.skipped = summary.skipped + 1]_vars

\* C1 witness: an instance without Skip flag is done, skipped by fail-fast and
\* never invoked, after another instance has failed.
C1_Witness ==
    /\ config.failFast
    /\ config.summary
    /\ \E j, k \in Instances :
          /\ k # j
          /\ inst[k].pc = "done" /\ inst[k].failed
          /\ inst[j].pc = "done" /\ inst[j].skipped /\ inst[j].invoked = 0
          /\ ~IsSkip(inst[j].test)
          /\ summary.skipped >= 1

\* C2: an instance whose processor is running is left as it is by every step
\* of the others, the step that sets the flag included; its record changes
\* only when its own processor is over, a step that touches neither the flag
\* nor the counters; and its summary cleanup counts it by its own outcome.
C2_NotPreemptive ==
    [][\A j \in Instances :
          /\ inst[j].pc = "proc"
                => /\ j \in 1..Len(inst')
                   /\ ~inst[j].skipped /\ ~inst[j].failed
                   /\ \/ inst'[j] = inst[j]
                      \/ /\ inst'[j].pc = "cleanup"
                         /\ inst'[j].invoked = inst[j].invoked
                         /\ shouldFailFast' = shouldFailFast
                         /\ summary' = summary
          /\ (inst[j].invoked >= 1 /\ Counts(j))
                => summary' =
                      [passed |-> summary.passed +
                          (IF ~inst[j].failed /\ ~inst[j].skipped THEN 1 ELSE 0),
                       failed |-> summary.failed +
                          (IF inst[j].failed /\ ~inst[j].skipped THEN 1 ELSE 0),
                       skipped |-> summary.skipped +
                          (IF inst[j].skipped THEN 1 ELSE 0)]]_vars

\* C2 witness: with fail-fast enabled the flag is set while a processor runs.
C2_Witness ==
    /\ config.failFast
    /\ shouldFailFast
    /\ \E j \in Instances : inst[j].pc = "proc" /\ inst[j].invoked = 1

\* Instance j has run its summary cleanup.
Counted(j) ==
    /\ inst[j].pc \in {"cleanup", "done"}
    /\ \A k \in 1..Len(inst[j].cleanups) : inst[j].cleanups[k] # "summary"

\* The instances counted so far that are skipped, failed without being
\* skipped, and neither.
CountedSkipped == {j \in Instances : Counted(j) /\ inst[j].skipped}

CountedFailed == {j \in Instances : Counted(j) /\ inst[j].failed /\ ~inst[j].skipped}

CountedPassed == {j \in Instances : Counted(j) /\ ~inst[j].failed /\ ~inst[j].skipped}

Total == summary.passed + summary.failed + summary.skipped

\* C3: with a summary configured, each counter is the number of instances
\* that have run their summary cleanup and ended that way (an instance both
\* skipped and failed counts as skipped), so that every terminated instance
\* is counted once, in one counter; once all instances are done the counters
\* add up to the number of instances, which is the number of expanded
\* instances when the scheduling loop was not aborted; and no step of a run
\* decreases a counter or adds more than one to them.
C3_CountedOnce ==
    /\ [](config.summary =>
            /\ summary.skipped = Cardinality(CountedSkipped)
            /\ summary.failed = Cardinality(CountedFailed)
            /\ summary.passed = Cardinality(CountedPassed)
            /\ \A j \in Instances : inst[j].pc = "done" => Counted(j)
            /\ (pc = "done" => Total = Len(inst))
            /\ (pc = "done" /\ i = Len(tests) => Total = CountInstances(tests)))
    /\ [][pc' # "idle" =>
            /\ summary'.passed >= summary.passed
            /\ summary'.failed >= summary.failed
            /\ summary'.skipped >= summary.skipped
            /\ summary'.passed + summary'.failed + summary'.skipped <= Total + 1]_vars

\* C3 witness: a run is over in which one instance passed, one failed and
\* all are counted.
C3_Witness ==
    /\ config.summary
    /\ pc = "done"
    /\ Len(inst) = 2
    /\ summary.passed = 1
    /\ summary.failed = 1
    /\ \E j \in Instances : IsConcurrent(inst[j].test)

\* C4: with fail-fast disabled, the processor of an instance without Skip
\* flag is invoked once, when the instance gets to it and never again,
\* whatever the other instances did; and a run of two concurrent tests, the
\* first failing and the second passing, ends with the counters 1, 1, 0.
C4_AllRunWithoutFailFast ==
    ~config.failFast =>
        /\ \A j \in Instances :
              ~IsSkip(inst[j].test) =>
                  inst[j].invoked = (IF inst[j].pc = "paused" THEN 0 ELSE 1)
        /\ (/\ pc = "done"
            /\ config.summary
            /\ Len(tests) = 2
            /\ Len(inst) = 2
            /\ \A j \in Instances : IsConcurrent(inst[j].test) /\ ~IsSkip(inst[j].test)
            /\ inst[1].failed /\ ~inst[1].skipped
            /\ ~inst[2].failed /\ ~inst[2].skipped)
              => summary = [passed |-> 1, failed |-> 1, skipped |-> 0]

\* C4 witness: fail-fast disabled, two concurrent tests, the first failed
\* before the second was invoked, the second passed.
C4_Witness ==
    /\ ~config.failFast
    /\ config.summary
    /\ pc = "done"
    /\ Len(tests) = 2
    /\ Len(inst) = 2
    /\ \A j \in Instances : IsConcurrent(inst[j].test) /\ inst[j].invoked = 1
    /\ inst[1].failed
    /\ ~inst[2].failed
    /\ shouldFailFast
    /\ summary = [passed |-> 1, failed |-> 1, skipped |-> 0]

----------------------------------------------------------------------------
\* Properties of the set-up

Logged(e) == \E k \in 1..Len(log) : log[k] = e

CreateCalls == {"Create:ok", "Create:error"}

\* C5: when the deletion is not to be skipped, a Create call stands in the
\* log after a not-found Get and after the registration of the deletion,
\* which is a cleanup of the parent while Create is called; and once the run
\* is over the deletion was attempted after the Create call, failed or not.
C5_CleanupBeforeCreate ==
    ~config.skipDelete =>
        /\ \A k \in 1..Len(log) :
              log[k] \in CreateCalls =>
                  /\ \E m \in 1..(k - 1) : log[m] = "Get:notfound"
                  /\ \E m \in 1..(k - 1) : log[m] = "RegisterDelete"
                  /\ pc = "done" => \E m \in (k + 1)..Len(log) : log[m] = "Delete"
        /\ pc = "create" =>
              \E k \in 1..Len(cleanups) : cleanups[k] = "nsDelete"

\* C5 witness: Create failed and the run is over, the deletion attempted.
C5_Witness ==
    /\ ~config.skipDelete
    /\ pc = "done"
    /\ Logged("Create:error")
    /\ Logged("Delete")

\* C6: in a run whose Get found the namespace there is no Create call, no
\* registration of the deletion and no deletion, and the namespace stays on
\* the cluster: in the first run and in the runs after it.
C6_ExistingNamespaceKept ==
    Logged("Get:found") =>
        /\ \A k \in 1..Len(log) :
              log[k] \notin CreateCalls \cup {"RegisterDelete", "Delete"}
        /\ \A k \in 1..Len(cleanups) : cleanups[k] # "nsDelete"
        /\ object \in cluster

\* C6 witness: the second run is over, it found the namespace, which is
\* still there.
C6_Witness ==
    /\ run = 2
    /\ pc = "done"
    /\ Logged("Get:found")
    /\ object \in cluster

FatalSetUpErrors == {"Resolve:error", "Merge:error", "Get:error", "Create:error"}

\* C7: after a fatal error of the set-up the parent's function is over, no
\* instance was scheduled and no counter incremented.
C7_SetUpErrorAborts ==
    (\E k \in 1..Len(log) : log[k] \in FatalSetUpErrors) =>
        /\ pc \in {"wait", "done"}
        /\ tFailed
        /\ inst = <<>>
        /\ scenarios = <<>>
        /\ i = 0
        /\ summary = [passed |-> 0, failed |-> 0, skipped |-> 0]

\* C7 witness: a run with a test to schedule is over after Get failed.
C7_Witness ==
    /\ Logged("Get:error")
    /\ pc = "done"
    /\ CountInstances(tests) >= 1

----------------------------------------------------------------------------
\* Properties of the instances

\* The instances scheduled for the test at place k, in scheduling order.
InstancesOf(k) == SelectSeq(inst, LAMBDA r : r.ci = k - 1)

\* C8: once the loop is past a test that is not nil, the instances scheduled
\* for it are one with scenario ordinal 1 and the test's bindings when it
\* declares no scenario, and else one per scenario, with the ordinals 1..N in
\* scenario order and the scenario's bindings followed by the test's; none
\* has scenarios, and an invoked one is told its scenario ordinal.
C8_ScenarioExpansion ==
    \A k \in 1..Len(tests) :
        (i >= k /\ ~tests[k].isNil) =>
            LET test == tests[k]
                n == Len(test.scenarios)
                is == InstancesOf(k)
            IN /\ Len(is) = (IF n = 0 THEN 1 ELSE n)
               /\ \A q \in 1..Len(is) :
                     /\ is[q].cs + 1 = q
                     /\ is[q].test.scenarios = <<>>
                     /\ is[q].test.bindings =
                           (IF n = 0 THEN test.bindings
                            ELSE test.scenarios[q].bindings \o test.bindings)
                     /\ is[q].invoked >= 1 =>
                           Lookup(is[q].given, "test").ScenarioId = q

\* C8 witness: a test with two scenarios, each with a binding, and a binding
\* of its own has been expanded and the run is over.
C8_Witness ==
    /\ pc = "done"
    /\ Len(tests) = 1
    /\ Len(tests[1].scenarios) = 2
    /\ Len(tests[1].bindings) = 1
    /\ Len(inst) = 2
    /\ Len(inst[2].test.bindings) = 2
    /\ inst[2].test.bindings[1] # inst[2].test.bindings[2]

\* The number of instances of a test.
NumInstances(test) ==
    IF test.isNil THEN 0
    ELSE IF Len(test.scenarios) = 0 THEN 1
    ELSE Len(test.scenarios)

\* The declaration and scenario ordinals of the instances of a list of tests,
\* by declaration order, then scenario order.
RECURSIVE Ordinals(_)
Ordinals(l) ==
    IF l = <<>> THEN <<>>
    ELSE Ordinals(SubSeq(l, 1, Len(l) - 1)) \o
         [q \in 1..NumInstances(l[Len(l)]) |-> <<Len(l), q>>]

\* The TestInfo of the j-th instance by these ordinals.
OwnInfo(j) ==
    TestInfo(Ordinals(tests)[j][1], Ordinals(tests)[j][2],
             tests[Ordinals(tests)[j][1]].name)

\* C9: the `test` binding an invoked instance is given holds the ordinals of
\* its own place in declaration and scenario order, whenever it was invoked.
C9_OwnOrdinals ==
    \A j \in Instances :
        inst[j].invoked >= 1 => Lookup(inst[j].given, "test") = OwnInfo(j)

\* C9 witness: a concurrent instance of the first of two tests was invoked
\* after the loop, when the last scheduled instance is one of the second.
C9_Witness ==
    /\ Len(tests) = 2
    /\ i = 2
    /\ Len(inst) = 2
    /\ inst[2].ci = 1
    /\ IsConcurrent(inst[1].test)
    /\ inst[1].invoked = 1
    /\ Lookup(inst[1].given, "test").Id = 1

\* C10: the bindings of Run hold no `test` binding and no step changes them
\* while instances are scheduled and run; an invoked instance was given them
\* extended with its own `test` binding and nothing else.
C10_BindingIsolation ==
    /\ [](/\ \A k \in 1..Len(bindings) : bindings[k].name # "test"
          /\ \A j \in Instances :
                inst[j].invoked >= 1 =>
                    inst[j].given = Append(bindings, [name |-> "test", value |-> OwnInfo(j)]))
    /\ [][(pc \in {"outer", "inner", "blocked", "wait"}) => bindings' = bindings]_vars

\* C10 witness: two instances were invoked with different `test` bindings on
\* top of the cluster's binding.
C10_Witness ==
    /\ Len(bindings) >= 1
    /\ \E j, k \in Instances :
          /\ inst[j].invoked = 1
          /\ inst[k].invoked = 1
          /\ Lookup(inst[j].given, "test") # Lookup(inst[k].given, "test")
          /\ Lookup(inst[j].given, "client") = Lookup(bindings, "client")
          /\ Lookup(inst[k].given, "client") = Lookup(bindings, "client")

----------------------------------------------------------------------------
\* Properties of the Skip flag and of the fail-fast flag

\* In this step instance j runs its fail-fast cleanup.
Records(j) ==
    /\ j \in Instances
    /\ j \in 1..Len(inst')
    /\ inst[j].pc = "cleanup"
    /\ inst[j].cleanups[Len(inst[j].cleanups)] = "failfast"
    /\ inst'[j].cleanups # inst[j].cleanups

\* The instances with Skip flag that are done.
SkipDone == {j \in Instances : IsSkip(inst[j].test) /\ inst[j].pc = "done"}

\* C11: an instance whose Skip flag is true never has its processor invoked
\* and never fails; once past t.Parallel() it is skipped; its summary cleanup
\* adds one to the skipped counter and to no other; and its fail-fast cleanup
\* leaves the flag as it is: with and without fail-fast, concurrent or not.
C11_SkipFlag ==
    /\ [](/\ \A j \in Instances :
                IsSkip(inst[j].test) =>
                    /\ inst[j].invoked = 0
                    /\ inst[j].given = <<>>
                    /\ ~inst[j].failed
                    /\ inst[j].pc \in {"paused", "cleanup", "done"}
                    /\ inst[j].pc # "paused" => inst[j].skipped
          /\ config.summary => summary.skipped >= Cardinality(SkipDone))
    /\ [][\A j \in Instances :
             IsSkip(inst[j].test) =>
                 /\ Counts(j) =>
                       summary' = [summary EXCEPT !.skipped = summary.skipped + 1]
                 /\ Records(j) => shouldFailFast' = shouldFailFast]_vars

\* C11 witness: with fail-fast enabled a concurrent and a non-concurrent
\* instance with Skip flag are done, both counted as skipped, the flag unset.
C11_Witness ==
    /\ config.failFast
    /\ config.summary
    /\ Len(inst) = 2
    /\ \A j \in Instances : IsSkip(inst[j].test) /\ inst[j].pc = "done"
    /\ IsConcurrent(inst[1].test)
    /\ ~IsConcurrent(inst[2].test)
    /\ summary = [passed |-> 0, failed |-> 0, skipped |-> 2]
    /\ ~shouldFailFast

SetUpPositions == {"idle", "resolve", "namespace", "get", "register", "create"}

\* C12: the fail-fast flag is false until the scheduling loop starts; when
\* it is true some instance is done and has failed; a step sets it only as
\* the fail-fast cleanup of a failed instance, that instance's last cleanup;
\* and once true it stays true in every later state of the run.
C12_FlagMonotonic ==
    /\ [](/\ pc \in SetUpPositions => ~shouldFailFast
          /\ shouldFailFast =>
                \E j \in Instances : inst[j].pc = "done" /\ inst[j].failed)
    /\ [][/\ (shouldFailFast /\ pc' # "idle") => shouldFailFast'
          /\ (~shouldFailFast /\ shouldFailFast') =>
                \E j \in Instances :
                    Records(j) /\ inst[j].failed /\ inst'[j].pc = "done"]_vars

\* C12 witness: the flag was set by a non-concurrent instance and is still
\* set after a later instance has passed and run its cleanups.
C12_Witness ==
    /\ shouldFailFast
    /\ Len(inst) = 2
    /\ ~IsConcurrent(inst[1].test)
    /\ inst[1].failed
    /\ inst[2].pc = "done"
    /\ inst[2].invoked = 1
    /\ ~inst[2].failed
    /\ ~inst[2].skipped

----------------------------------------------------------------------------
\* Properties of the collector command builders

\* The call of Logs, or of Describe, has returned; its collector is not nil.
LogsReturned == result.fn = "Logs" /\ ~call.collector.isNil

DescribeReturned == result.fn = "Describe" /\ ~call.collector.isNil

\* What a field of the call's collector resolves to.
Resolved(field) == ResolveString(call.collector[field], call.bindings)

Resolves(fields) == \A f \in fields : Resolved(f).err = ""

Empty(field) == Resolved(field) = [value |-> "", err |-> ""]

NonEmpty(field) == Resolved(field).err = "" /\ Resolved(field).value # ""

MustBeSpecified == "a name or selector must be specified"

CannotBeProvided == "name cannot be provided when a selector is specified"

\* What the client maps the collector's resource reference to.
Mapped == call.client[call.collector.resource]

\* C13 as stated, for the collectors whose other fields resolve and whose
\* resource the client can map: Describe of a collector whose name and
\* selector both resolve to the empty string fails with the
\* must-be-specified error and returns no command.
C13_DescribeRequiresNameOrSelector ==
    (/\ DescribeReturned /\ Empty("name") /\ Empty("selector")
     /\ Resolves({"namespace", "cluster"}) /\ Mapped.err = "") =>
        /\ result.err = MustBeSpecified
        /\ result.cmd.isNil

\* C13, as the code has it: Describe never fails with the must-be-specified
\* error. For a collector whose name and selector both resolve to the empty
\* string it fails only when the namespace or the cluster does not resolve
\* or the resource cannot be mapped, and returns no command then; else it
\* returns the kubectl command that describes every object of the resource:
\* "describe", the resource, neither a name nor "-l", then the namespace
\* flags and the show-events flag.
C13_DescribeAllowsNeither ==
    /\ result.fn = "Describe" => result.err # MustBeSpecified
    /\ (DescribeReturned /\ Empty("name") /\ Empty("selector")) =>
          IF Resolves({"namespace", "cluster"}) /\ Mapped.err = ""
          THEN /\ result.err = ""
               /\ ~result.cmd.isNil
               /\ result.cmd.entrypoint = "kubectl"
               /\ result.cmd.args =
                     DescribeArgs(Mapped.resource, Mapped.clustered, "",
                                  Resolved("namespace").value, "",
                                  call.collector.showEvents)
               /\ result.cmd.args[1] = "describe"
               /\ result.cmd.args[2] = Mapped.resource
               /\ \A k \in 3..Len(result.cmd.args) :
                     result.cmd.args[k] \notin {"-l", ""}
               /\ Len(result.cmd.args) <= 5
          ELSE /\ result.err \in {Resolved("namespace").err, Resolved("cluster").err,
                                  Mapped.err} \ {""}
               /\ result.cmd.isNil

\* C13 witness: Describe has returned the command for all pods of the test
\* namespace, for a name that is empty and a selector bound to the empty
\* string.
C13_Witness ==
    /\ DescribeReturned
    /\ call.collector.name = Lit("")
    /\ call.collector.selector = Ref("x")
    /\ Empty("selector")
    /\ result.err = ""
    /\ result.cmd.args = <<"describe", "pods", "-n", "$NAMESPACE">>

\* C14: Logs of a collector whose name and selector both resolve to the
\* empty string fails and returns neither entrypoint nor arguments; the error
\* is the must-be-specified error whenever the namespace and the container
\* resolve, and else the error of the one that does not.
C14_LogsRequiresNameOrSelector ==
    (LogsReturned /\ Empty("name") /\ Empty("selector")) =>
        /\ result.entrypoint = ""
        /\ result.args = <<>>
        /\ IF Resolves({"namespace", "container"})
           THEN result.err = MustBeSpecified
           ELSE result.err \in
                    {Resolved("namespace").err, Resolved("container").err} \ {""}

\* C14 witness: Logs has failed with the must-be-specified error for a name
\* bound to the empty string and an empty selector.
C14_Witness ==
    /\ LogsReturned
    /\ call.collector.name = Ref("x")
    /\ Empty("name")
    /\ call.collector.selector = Lit("")
    /\ result = LogsError(MustBeSpecified)

\* C15: for a collector whose name and selector both resolve non-empty, Logs
\* and Describe fail and return no command; the error is the
\* cannot-be-provided error whenever the other fields resolve; and Describe
\* returns the same for every resource reference, mappable or not.
C15_NameExcludesSelector ==
    /\ (LogsReturned /\ NonEmpty("name") /\ NonEmpty("selector")) =>
          /\ result.entrypoint = ""
          /\ result.args = <<>>
          /\ result.err # ""
          /\ Resolves({"namespace", "container"}) => result.err = CannotBeProvided
    /\ (DescribeReturned /\ NonEmpty("name") /\ NonEmpty("selector")) =>
          /\ result.cmd.isNil
          /\ result.err # ""
          /\ Resolves({"namespace", "cluster"}) => result.err = CannotBeProvided
          /\ \A r \in ResourceReferences :
                Describe(call.client, call.bindings,
                         [call.collector EXCEPT !.resource = r]) = result

\* C15 witness: Describe has failed with the cannot-be-provided error for a
\* resource the client cannot map.
C15_Witness ==
    /\ DescribeReturned
    /\ NonEmpty("name")
    /\ NonEmpty("selector")
    /\ Mapped.err # ""
    /\ result = DescribeError(CannotBeProvided)

\* The decimal text of the tail counts of the calls.
TailText(n) ==
    CASE n = -1 -> "-1"
      [] n = 0 -> "0"
      [] n = 7 -> "7"
      [] n = 25 -> "25"

\* The log spec of the call is valid: every field resolves and exactly one of
\* name and selector is not empty.
ValidLogSpec ==
    /\ LogsReturned
    /\ Resolves({"name", "namespace", "selector", "container"})
    /\ (Resolved("name").value = "") # (Resolved("selector").value = "")

\* C16: for a valid log spec Logs returns no error, the entrypoint kubectl
\* and these arguments, in this order and no others: "logs", "--prefix"; the
\* name, or "-l" and the selector; "-n" and the namespace, $NAMESPACE for the
\* empty one; "--all-containers" for the empty container and else "-c" and
\* the container; "--tail" and the count in decimal when a count is given.
C16_LogsArgv ==
    ValidLogSpec =>
        LET name == Resolved("name").value
            namespace == Resolved("namespace").value
            selector == Resolved("selector").value
            container == Resolved("container").value
            tail == call.collector.tail
        IN /\ result.err = ""
           /\ result.entrypoint = "kubectl"
           /\ result.args =
                 <<"logs", "--prefix">>
                 \o (IF name # "" THEN <<name>> ELSE <<"-l", selector>>)
                 \o <<"-n">>
                 \o (IF namespace = "" THEN <<"$NAMESPACE">> ELSE <<namespace>>)
                 \o (IF container = "" THEN <<"--all-containers">>
                     ELSE <<"-c", container>>)
                 \o (IF tail.isNil THEN <<>> ELSE <<"--tail", TailText(tail.value)>>)

\* C16 witness: Logs has returned the arguments for a selector, a namespace,
\* a container and a tail count.
C16_Witness ==
    /\ ValidLogSpec
    /\ result.entrypoint = "kubectl"
    /\ result.args = <<"logs", "--prefix", "-l", "app=a", "-n", "ns1", "-c", "c1",
                       "--tail", "25">>

\* Describe has returned a command.
Described == DescribeReturned /\ result.err = ""

Argv == result.cmd.args

Has(flag) == \E k \in 1..Len(Argv) : Argv[k] = flag

HasPair(flag, value) ==
    \E k \in 1..(Len(Argv) - 1) : Argv[k] = flag /\ Argv[k + 1] = value

\* C17: the command Describe returns for a cluster-scoped resource has neither
\* "-n" nor "--all-namespaces" among its arguments, whatever the namespace;
\* the one for a namespaced resource has "--all-namespaces" and no "-n" for
\* the namespace "*", "-n" "$NAMESPACE" for the empty namespace and "-n" and
\* the namespace for any other, and no "--all-namespaces" in these two cases.
C17_DescribeNamespaceScope ==
    Described =>
        LET namespace == Resolved("namespace").value
        IN IF Mapped.clustered
           THEN ~Has("-n") /\ ~Has("--all-namespaces")
           ELSE IF namespace = "*"
           THEN Has("--all-namespaces") /\ ~Has("-n")
           ELSE /\ HasPair("-n", IF namespace = "" THEN "$NAMESPACE" ELSE namespace)
                /\ ~Has("--all-namespaces")
                /\ Cardinality({k \in 1..Len(Argv) : Argv[k] = "-n"}) = 1

\* C17 witness: Describe has returned the command for a cluster-scoped
\* resource and the namespace "*", without namespace flags.
C17_Witness ==
    /\ Described
    /\ Mapped.clustered
    /\ Resolved("namespace").value = "*"
    /\ Argv = <<"describe", "nodes", "pod-1", "--show-events=false">>

----------------------------------------------------------------------------
\* Properties of the order of cleanups and of non-concurrent instances

\* The places of an entry in the log.
Places(e) == {k \in 1..Len(log) : log[k] = e}

\* C18: the cleanups of the run are registered end-time first, deletion
\* second; a step runs one only when the function of Run is over and every
\* instance is done, and it is the last registered one that is left; so the
\* deletion is attempted before the end time is set, and once either has
\* happened every instance is done and no instance is added or changed in
\* the rest of the run.
C18_RunCleanupsLast ==
    /\ [](/\ \A k, m \in 1..Len(cleanups) :
                (cleanups[k] = "reportEnd" /\ cleanups[m] = "nsDelete") => k < m
          /\ (Logged("Delete") \/ Logged("SetEndTime")) =>
                pc \in {"wait", "done"} /\ AllDone
          /\ (Logged("RegisterDelete") /\ Logged("SetEndTime")) =>
                \E d \in Places("Delete") : \A e \in Places("SetEndTime") : d < e
          /\ Cardinality(Places("Delete")) <= 1
          /\ Cardinality(Places("SetEndTime")) <= 1)
    /\ [][/\ Len(cleanups') < Len(cleanups) =>
                /\ pc = "wait"
                /\ AllDone
                /\ cleanups' = SubSeq(cleanups, 1, Len(cleanups) - 1)
                /\ inst' = inst
          /\ ((Logged("Delete") \/ Logged("SetEndTime")) /\ pc' # "idle") =>
                inst' = inst]_vars

\* C18 witness: a run with report and namespace is over; its concurrent
\* instance was invoked, then the namespace was deleted, then the end time
\* set.
C18_Witness ==
    /\ pc = "done"
    /\ Len(inst) = 1
    /\ IsConcurrent(inst[1].test)
    /\ inst[1].invoked = 1
    /\ Logged("Create:ok")
    /\ \E d \in Places("Delete") : \E e \in Places("SetEndTime") : d < e
    /\ object \notin cluster

\* Instance j has registered its first cleanups and run none yet.
Registered(j) == inst[j].pc \in {"paused", "proc"}

\* C19 as stated: the summary cleanup of an instance is the cleanup it
\* registered first, and nothing is left to run once it has run.
C19_BookkeepingRegisteredFirst ==
    config.summary =>
        \A j \in Instances :
            /\ Registered(j) => inst[j].cleanups[1] = "summary"
            /\ Counted(j) => inst[j].cleanups = <<>>

\* C19, as the code has it: the summary cleanup is registered second, after
\* the fail-fast cleanup and before every cleanup of the processor; so when
\* it runs only the fail-fast cleanup is left, it counts the instance as
\* failed when a cleanup of the processor has failed it, and the outcome it
\* has counted does not change afterwards.
C19_BookkeepingAfterFailFast ==
    /\ [](config.summary =>
            \A j \in Instances :
                /\ Registered(j) => inst[j].cleanups = <<"failfast", "summary">>
                /\ \A k \in 1..Len(inst[j].cleanups) :
                      /\ inst[j].cleanups[k] = "failfast" <=> k = 1
                      /\ inst[j].cleanups[k] = "summary" <=> k = 2
                /\ Counted(j) => inst[j].cleanups \in {<<"failfast">>, <<>>})
    /\ [][config.summary =>
            \A j \in Instances :
                /\ Counts(j) =>
                      /\ inst'[j].cleanups = <<"failfast">>
                      /\ (inst[j].failed /\ ~inst[j].skipped) =>
                            summary'.failed = summary.failed + 1
                /\ (j \in 1..Len(inst') /\ inst[j].pc = "cleanup"
                    /\ inst[j].cleanups[Len(inst[j].cleanups)] = "procFail") =>
                      /\ ~Counted(j)
                      /\ inst'[j] # inst[j] => inst'[j].failed
                /\ (Counted(j) /\ j \in 1..Len(inst')) =>
                      /\ inst'[j].failed = inst[j].failed
                      /\ inst'[j].skipped = inst[j].skipped]_vars

\* C19 witness: an instance that failed has been counted as failed and has
\* its fail-fast cleanup still to run, the flag not yet set.
C19_Witness ==
    /\ config.summary
    /\ Len(inst) = 1
    /\ inst[1].pc = "cleanup"
    /\ inst[1].cleanups = <<"failfast">>
    /\ inst[1].failed
    /\ summary = [passed |-> 0, failed |-> 1, skipped |-> 0]
    /\ ~shouldFailFast

\* C20: a non-concurrent instance never pauses; while it runs the parent is
\* blocked in t.Run for it, it is the last instance scheduled and no other
\* instance runs; when another instance is scheduled after it, it is done,
\* its cleanups run, the flag set if it failed; and with fail-fast enabled
\* every instance scheduled after a failed one is skipped without being
\* invoked, as soon as it is past t.Parallel().
C20_SequentialRunsAlone ==
    \A j \in Instances :
        ~IsConcurrent(inst[j].test) =>
            /\ inst[j].pc \in {"proc", "cleanup", "done"}
            /\ inst[j].pc # "done" =>
                  /\ pc = "blocked"
                  /\ j = Len(inst)
                  /\ \A k \in Instances \ {j} : inst[k].pc \in {"paused", "done"}
            /\ (j < Len(inst) \/ pc # "blocked") =>
                  /\ inst[j].pc = "done"
                  /\ inst[j].cleanups = <<>>
                  /\ inst[j].failed => shouldFailFast
            /\ (config.failFast /\ inst[j].pc = "done" /\ inst[j].failed) =>
                  \A k \in Instances :
                      (k > j /\ inst[k].pc # "paused") =>
                          inst[k].skipped /\ inst[k].invoked = 0

\* C20 witness: with fail-fast enabled a non-concurrent instance has failed
\* and the non-concurrent instance scheduled after it is done, skipped without
\* Skip flag and never invoked.
C20_Witness ==
    /\ config.failFast
    /\ Len(inst) = 2
    /\ \A j \in Instances : ~IsConcurrent(inst[j].test) /\ inst[j].pc = "done"
    /\ inst[1].failed
    /\ ~IsSkip(inst[2].test)
    /\ inst[2].skipped
    /\ inst[2].invoked = 0

====
